---- MODULE Spec2Model ----
(***************************************************************************)
(* The streaming response transformer of HeliconeLanguageModel.doStream    *)
(* (src/src/helicone-language-model.ts): the read loop of the processed    *)
(* stream, the per-line filter and JSON decoding, the per-frame dispatch   *)
(* (usage, finish signal, text delta, tool-call fragments) and the flush   *)
(* at a finish signal and at the end of the byte stream.                   *)
(*                                                                         *)
(* The output is a ReadableStream: once the consumer has cancelled it, it  *)
(* is no longer readable and controller.enqueue throws a TypeError, which  *)
(* the try block around the statement catches; controller.error is then a  *)
(* no-op.  A session value carries the flag thrown for the statements that *)
(* an exception skips.                                                     *)
(*                                                                         *)
(* A chunk is modelled as the sequence of the lines that chunk.split('\n') *)
(* yields.  JavaScript values that the code only tests for truthiness are  *)
(* modelled by the empty string when absent, null or empty (id, name,      *)
(* arguments, content, finish_reason); a field the code compares with      *)
(* undefined (index) or tests as an object (usage, delta) is modelled by   *)
(* the presence of the record field.                                       *)
(***************************************************************************)
EXTENDS Integers, Sequences, FiniteSets, TLC

\* Number of lines the byte source delivers before it is exhausted.
MaxLines == 3

-----------------------------------------------------------------------------
(* The input universe: tool-call fragments, deltas, choices, frames, lines *)

FragIdx(i, id, name, arguments) ==
    [index |-> i, id |-> id, name |-> name, arguments |-> arguments]
FragNoIdx(id, name, arguments) ==
    [id |-> id, name |-> name, arguments |-> arguments]

\* first fragment of call c1: index, id, name and the start of the arguments
FragC1Start == FragIdx(0, "c1", "f", "{\"a\":")
\* later fragment of the call at index 0: index and arguments only
FragC1Cont == FragIdx(0, "", "", "1}")
\* a fragment with an id and arguments but no name; the text is '{}'
FragC1Bare == FragIdx(0, "c1", "", "{}")
\* a second call that never gets arguments
FragC2 == FragIdx(1, "c2", "g", "")
\* a name arriving later for the call at index 0
FragRename == FragIdx(0, "", "g", "")
\* a fragment with neither id nor index
FragOrphan == FragNoIdx("", "f", "x")
\* a fragment that re-supplies index 0 with another id
FragRemap == FragIdx(0, "c2", "", "x")

Delta(content, tool_calls) == [content |-> content, tool_calls |-> tool_calls]
Choice(finish_reason, delta) == [finish_reason |-> finish_reason, delta |-> delta]
FrameOf(choice) == [choices |-> <<choice>>]
FrameWithUsage(choice, u) == [choices |-> <<choice>>, usage |-> u]
UsageFrame(u) == [choices |-> <<>>, usage |-> u]

ToolFrames ==
    { FrameOf(Choice("", Delta("", tcs))) :
        tcs \in { <<FragC1Start>>, <<FragC1Cont>>, <<FragC1Bare>>, <<FragC2>>,
                  <<FragRename>>, <<FragOrphan, FragRemap>> } }

TextFrames == { FrameOf(Choice("", Delta(c, <<>>))) : c \in {"Hello", " world"} }

FullUsage == [prompt_tokens |-> 5, completion_tokens |-> 7, total_tokens |-> 12]
PartialUsage == [completion_tokens |-> 4]

FinishFrames ==
    { FrameOf(Choice("tool_calls", Delta("", <<>>))),
      FrameOf(Choice("tool_calls", Delta("", <<FragC1Cont>>))),
      FrameOf(Choice("stop", Delta(" world", <<>>))),
      FrameWithUsage(Choice("stop", Delta("", <<>>)), FullUsage) }

\* a frame without choices field, and a frame with a second choice
NoChoicesFrame == [object |-> "chat.completion.chunk"]
TwoChoicesFrame ==
    [choices |-> << Choice("", Delta("Hello", <<>>)),
                    Choice("stop", Delta(" world", <<FragC2>>)) >>]

OtherFrames ==
    { UsageFrame(FullUsage),
      FrameWithUsage(Choice("", Delta("", <<>>)), PartialUsage),
      NoChoicesFrame, TwoChoicesFrame }

Frames == ToolFrames \cup TextFrames \cup FinishFrames \cup OtherFrames

\* a line 'data: <valid JSON>'
DataLine(frame) == [kind |-> "json", frame |-> frame]
\* a line 'data: {invalid json}'
BadLine == [kind |-> "bad"]
\* the line 'data: [DONE]'
DoneLine == [kind |-> "done"]
\* a line that does not start with 'data: ' (the blank line between events)
BlankLine == [kind |-> "blank"]

\* the two pieces split('\n') yields of a line whose bytes arrive in two
\* successive chunks: the head ends one chunk, the tail begins the next
HeadOf(line) == [kind |-> "head", of |-> line]
TailOf(line) == [kind |-> "tail", of |-> line]

Lines == { DataLine(f) : f \in Frames } \cup { BadLine, DoneLine, BlankLine }

\* the chunks a read may deliver when k more lines may still arrive: every
\* non-empty sequence of at most k lines (split never yields an empty list)
Chunks(k) == UNION { [1..n -> Lines] : n \in 1..k }

-----------------------------------------------------------------------------
(* Events *)

EvToolInputStart(id, toolName) ==
    [type |-> "tool-input-start", id |-> id, toolName |-> toolName]
EvToolInputDelta(id, delta) ==
    [type |-> "tool-input-delta", id |-> id, delta |-> delta]
EvToolInputEnd(id) == [type |-> "tool-input-end", id |-> id]
EvToolCall(id, toolName, input) ==
    [type |-> "tool-call", toolCallId |-> id, toolName |-> toolName, input |-> input]
EvTextStart(id) == [type |-> "text-start", id |-> id]
EvTextDelta(id, delta) == [type |-> "text-delta", id |-> id, delta |-> delta]
EvTextEnd(id) == [type |-> "text-end", id |-> id]
EvFinish(u, finishReason) ==
    [type |-> "finish", usage |-> u, finishReason |-> finishReason]

-----------------------------------------------------------------------------
(* Session state *)

VARIABLES
    usage,              \* { inputTokens, outputTokens, totalTokens }
    actualFinishReason, \* the finish reason the finish event will carry
    toolCalls,          \* the toolCalls Map, as its entries in insertion order
    indexToId,          \* the indexToId Map, a function index -> id
    textStarted,        \* the textStarted Set
    textEnded,          \* the textEnded Set
    out,                \* the events enqueued on the controller, in order
    state,              \* of the output: "readable", "closed" or "errored"
    pending,            \* lines of the current chunk not yet processed
    input,              \* every line the byte source has delivered so far
    running,            \* the read loop of start(controller) has not ended
    readsAfterCancel,   \* reads that resolved after the consumer cancelled
    call                \* the last doGenerate / doStream request and its result

vars == <<usage, actualFinishReason, toolCalls, indexToId, textStarted,
          textEnded, out, state, pending, input, running, readsAfterCancel,
          call>>

InitialUsage == [inputTokens |-> 0, outputTokens |-> 0, totalTokens |-> 0]
\* mutant: the finish reason starts as 'unknown'
InitialFinishReason_Unknown == "unknown"
InitialFinishReason == "stop"
\* mutant: a new call starts with an empty argument text
EmptyArguments_Blank == ""
EmptyArguments == "{}"
TextId == "text-0"

\* the mutable state of one doStream call, as one value
Session ==
    [usage |-> usage, actualFinishReason |-> actualFinishReason,
     toolCalls |-> toolCalls, indexToId |-> indexToId,
     textStarted |-> textStarted, textEnded |-> textEnded, out |-> out,
     writable |-> state = "readable", thrown |-> FALSE]

\* controller.enqueue: throws when the output is not readable
Enqueue(S, ev) ==
    IF S.thrown THEN S
    ELSE IF ~S.writable THEN [S EXCEPT !.thrown = TRUE]
    ELSE [S EXCEPT !.out = Append(@, ev)]

\* mapHeliconeFinishReason of ./helicone-error
mapHeliconeFinishReason(reason) ==
    CASE reason = "stop" -> "stop"
      [] reason = "tool_calls" -> "tool-calls"
      [] reason = "length" -> "length"
      [] reason = "content_filter" -> "content-filter"
      [] OTHER -> "unknown"

-----------------------------------------------------------------------------
(* The flush: complete outstanding tool calls, then outstanding text parts *)

RECURSIVE CompleteToolCallsFrom(_, _)
CompleteToolCallsFrom(S, i) ==
    IF S.thrown \/ i > Len(S.toolCalls) THEN S
    ELSE LET toolCall == S.toolCalls[i] IN
         IF toolCall.completed THEN CompleteToolCallsFrom(S, i + 1)
         ELSE LET S1 == Enqueue(Enqueue(S, EvToolInputEnd(toolCall.id)),
                                EvToolCall(toolCall.id, toolCall.name,
                                           toolCall.arguments))
              IN  CompleteToolCallsFrom(
                    IF S1.thrown THEN S1
                    ELSE [S1 EXCEPT !.toolCalls[i].completed = TRUE],
                    i + 1)

\* mutant: the flush does not test the completed flag
RECURSIVE CompleteAllFrom(_, _)
CompleteAllFrom(S, i) ==
    IF i > Len(S.toolCalls) THEN S
    ELSE LET toolCall == S.toolCalls[i] IN
         CompleteAllFrom(
            [S EXCEPT !.out = @ \o << EvToolInputEnd(toolCall.id),
                                      EvToolCall(toolCall.id, toolCall.name,
                                                 toolCall.arguments) >>,
                      !.toolCalls[i].completed = TRUE],
            i + 1)
CompleteToolCalls_IgnoreCompleted(S) == CompleteAllFrom(S, 1)

\* mutant: the flush goes through the tool calls from the newest to the oldest
RECURSIVE CompleteToolCallsDownFrom(_, _)
CompleteToolCallsDownFrom(S, i) ==
    IF S.thrown \/ i < 1 THEN S
    ELSE LET toolCall == S.toolCalls[i] IN
         IF toolCall.completed THEN CompleteToolCallsDownFrom(S, i - 1)
         ELSE LET S1 == Enqueue(Enqueue(S, EvToolInputEnd(toolCall.id)),
                                EvToolCall(toolCall.id, toolCall.name,
                                           toolCall.arguments))
              IN  CompleteToolCallsDownFrom(
                    IF S1.thrown THEN S1
                    ELSE [S1 EXCEPT !.toolCalls[i].completed = TRUE],
                    i - 1)
CompleteToolCalls_NewestFirst(S) == CompleteToolCallsDownFrom(S, Len(S.toolCalls))

\* mutant: the flush deletes the tool calls it has completed
CompleteToolCalls_DeleteFlushed(S) ==
    LET R == CompleteToolCallsFrom(S, 1) IN
    IF R.thrown THEN R ELSE [R EXCEPT !.toolCalls = <<>>]

CompleteToolCalls(S) == CompleteToolCallsFrom(S, 1)

\* mutant: the flush ends the text span whether or not it was started
CompleteTextParts_EndUnstarted(S) ==
    IF S.thrown \/ TextId \in S.textEnded THEN S
    ELSE LET S1 == Enqueue(S, EvTextEnd(TextId)) IN
         IF S1.thrown THEN S1 ELSE [S1 EXCEPT !.textEnded = @ \cup {TextId}]

RECURSIVE CompleteTextParts(_)
CompleteTextParts(S) ==
    LET open == S.textStarted \ S.textEnded IN
    IF S.thrown \/ open = {} THEN S
    ELSE LET id == CHOOSE t \in open : TRUE
             S1 == Enqueue(S, EvTextEnd(id))
         IN  CompleteTextParts(IF S1.thrown THEN S1
                               ELSE [S1 EXCEPT !.textEnded = @ \cup {id}])

-----------------------------------------------------------------------------
(* The per-frame dispatch *)

\* mutant: only the first usage object is taken
UpdateUsage_KeepFirst(S, parsed) ==
    IF "usage" \in DOMAIN parsed /\ S.usage = InitialUsage
    THEN LET field(k) == IF k \in DOMAIN parsed.usage THEN parsed.usage[k] ELSE 0 IN
         [S EXCEPT !.usage = [inputTokens |-> field("prompt_tokens"),
                              outputTokens |-> field("completion_tokens"),
                              totalTokens |-> field("total_tokens")]]
    ELSE S

\* mutant: a field missing in the usage object keeps its earlier value
UpdateUsage_Merge(S, parsed) ==
    IF "usage" \in DOMAIN parsed
    THEN LET field(k, old) == IF k \in DOMAIN parsed.usage THEN parsed.usage[k]
                              ELSE old
         IN  [S EXCEPT !.usage =
                [inputTokens |-> field("prompt_tokens", S.usage.inputTokens),
                 outputTokens |-> field("completion_tokens", S.usage.outputTokens),
                 totalTokens |-> field("total_tokens", S.usage.totalTokens)]]
    ELSE S

UpdateUsage(S, parsed) ==
    IF "usage" \in DOMAIN parsed
    THEN LET field(k) == IF k \in DOMAIN parsed.usage THEN parsed.usage[k] ELSE 0 IN
         [S EXCEPT !.usage = [inputTokens |-> field("prompt_tokens"),
                              outputTokens |-> field("completion_tokens"),
                              totalTokens |-> field("total_tokens")]]
    ELSE S

\* mutant: a finish reason already taken from a frame is kept
FinishSignal_FirstWins(S, choice) ==
    IF choice.finish_reason # ""
    THEN CompleteTextParts(CompleteToolCalls(
            [S EXCEPT !.actualFinishReason =
                          IF @ = InitialFinishReason
                          THEN mapHeliconeFinishReason(choice.finish_reason)
                          ELSE @]))
    ELSE S

\* mutant: the finish signal of a frame emits the finish event
FinishSignal_EmitsFinish(S, choice) ==
    IF choice.finish_reason # ""
    THEN LET S1 == CompleteTextParts(CompleteToolCalls(
                      [S EXCEPT !.actualFinishReason =
                                    mapHeliconeFinishReason(choice.finish_reason)]))
         IN  Enqueue(S1, EvFinish(S1.usage, S1.actualFinishReason))
    ELSE S

FinishSignal(S, choice) ==
    IF choice.finish_reason # ""
    THEN CompleteTextParts(CompleteToolCalls(
            [S EXCEPT !.actualFinishReason =
                          mapHeliconeFinishReason(choice.finish_reason)]))
    ELSE S

\* mutant: a text span that was ended is started again by the next delta
TextDelta_RestartAfterEnd(S, delta) ==
    IF ~S.thrown /\ delta.content # ""
    THEN LET E == Enqueue(S, EvTextStart(TextId))
             S1 == IF TextId \notin S.textStarted \/ TextId \in S.textEnded
                   THEN IF E.thrown THEN E
                        ELSE [E EXCEPT !.textStarted = @ \cup {TextId},
                                       !.textEnded = @ \ {TextId}]
                   ELSE S
         IN Enqueue(S1, EvTextDelta(TextId, delta.content))
    ELSE S

TextDelta(S, delta) ==
    IF ~S.thrown /\ delta.content # ""
    THEN LET E == Enqueue(S, EvTextStart(TextId))
             S1 == IF TextId \notin S.textStarted
                   THEN IF E.thrown THEN E
                        ELSE [E EXCEPT !.textStarted = @ \cup {TextId}]
                   ELSE S
         IN Enqueue(S1, EvTextDelta(TextId, delta.content))
    ELSE S

\* position of the entry with key id in the toolCalls Map, 0 when there is none
PosOf(calls, id) ==
    IF \E i \in 1..Len(calls) : calls[i].id = id
    THEN CHOOSE i \in 1..Len(calls) : calls[i].id = id
    ELSE 0

\* mutant: every name a fragment brings replaces the name and is announced
TrackFragment_LastNameWins(S, toolId, toolCall) ==
    LET S1 == IF PosOf(S.toolCalls, toolId) = 0
              THEN [S EXCEPT !.toolCalls =
                        Append(@, [id |-> toolId, name |-> "",
                                   arguments |-> EmptyArguments,
                                   completed |-> FALSE])]
              ELSE S
        p == PosOf(S1.toolCalls, toolId)
        S2 == IF toolCall.name # ""
              THEN Enqueue([S1 EXCEPT !.toolCalls[p].name = toolCall.name],
                           EvToolInputStart(toolId, toolCall.name))
              ELSE S1
    IN  IF ~S2.thrown /\ toolCall.arguments # ""
        THEN Enqueue(
               [S2 EXCEPT !.toolCalls[p].arguments =
                    IF @ = EmptyArguments THEN toolCall.arguments
                    ELSE @ \o toolCall.arguments],
               EvToolInputDelta(toolId, toolCall.arguments))
        ELSE S2

\* mutant: the tool-input-delta carries the accumulated buffer
TrackFragment_DeltaIsBuffer(S, toolId, toolCall) ==
    LET S1 == IF PosOf(S.toolCalls, toolId) = 0
              THEN [S EXCEPT !.toolCalls =
                        Append(@, [id |-> toolId, name |-> "",
                                   arguments |-> EmptyArguments,
                                   completed |-> FALSE])]
              ELSE S
        p == PosOf(S1.toolCalls, toolId)
        S2 == IF toolCall.name # "" /\ S1.toolCalls[p].name = ""
              THEN Enqueue([S1 EXCEPT !.toolCalls[p].name = toolCall.name],
                           EvToolInputStart(toolId, toolCall.name))
              ELSE S1
        S3 == [S2 EXCEPT !.toolCalls[p].arguments =
                    IF @ = EmptyArguments THEN toolCall.arguments
                    ELSE @ \o toolCall.arguments]
    IN  IF ~S2.thrown /\ toolCall.arguments # ""
        THEN Enqueue(S3, EvToolInputDelta(toolId, S3.toolCalls[p].arguments))
        ELSE S2

\* mutant: a fragment is appended to the buffer even when it is still '{}'
TrackFragment_AppendToSentinel(S, toolId, toolCall) ==
    LET S1 == IF PosOf(S.toolCalls, toolId) = 0
              THEN [S EXCEPT !.toolCalls =
                        Append(@, [id |-> toolId, name |-> "",
                                   arguments |-> EmptyArguments,
                                   completed |-> FALSE])]
              ELSE S
        p == PosOf(S1.toolCalls, toolId)
        S2 == IF toolCall.name # "" /\ S1.toolCalls[p].name = ""
              THEN Enqueue([S1 EXCEPT !.toolCalls[p].name = toolCall.name],
                           EvToolInputStart(toolId, toolCall.name))
              ELSE S1
    IN  IF ~S2.thrown /\ toolCall.arguments # ""
        THEN Enqueue(
               [S2 EXCEPT !.toolCalls[p].arguments = @ \o toolCall.arguments],
               EvToolInputDelta(toolId, toolCall.arguments))
        ELSE S2

\* lines 496-532: get or create the tracked call, then name and arguments
TrackFragment(S, toolId, toolCall) ==
    LET S1 == IF PosOf(S.toolCalls, toolId) = 0
              THEN [S EXCEPT !.toolCalls =
                        Append(@, [id |-> toolId, name |-> "",
                                   arguments |-> EmptyArguments,
                                   completed |-> FALSE])]
              ELSE S
        p == PosOf(S1.toolCalls, toolId)
        S2 == IF toolCall.name # "" /\ S1.toolCalls[p].name = ""
              THEN Enqueue([S1 EXCEPT !.toolCalls[p].name = toolCall.name],
                           EvToolInputStart(toolId, toolCall.name))
              ELSE S1
    IN  IF ~S2.thrown /\ toolCall.arguments # ""
        THEN Enqueue(
               [S2 EXCEPT !.toolCalls[p].arguments =
                    IF @ = EmptyArguments THEN toolCall.arguments
                    ELSE @ \o toolCall.arguments],
               EvToolInputDelta(toolId, toolCall.arguments))
        ELSE S2

\* mutant: a fragment that resolves to no id is tracked under the empty id
ToolCallFragment_KeepsOrphan(S, toolCall) ==
    IF toolCall.id # ""
    THEN TrackFragment(
            IF "index" \in DOMAIN toolCall
            THEN [S EXCEPT !.indexToId = (toolCall.index :> toolCall.id) @@ @]
            ELSE S,
            toolCall.id, toolCall)
    ELSE IF "index" \in DOMAIN toolCall /\ toolCall.index \in DOMAIN S.indexToId
    THEN TrackFragment(S, S.indexToId[toolCall.index], toolCall)
    ELSE TrackFragment(S, "", toolCall)

\* mutant: an index that is already mapped keeps its first id
ToolCallFragment_FirstIndexWins(S, toolCall) ==
    IF toolCall.id # ""
    THEN TrackFragment(
            IF "index" \in DOMAIN toolCall /\ toolCall.index \notin DOMAIN S.indexToId
            THEN [S EXCEPT !.indexToId = (toolCall.index :> toolCall.id) @@ @]
            ELSE S,
            toolCall.id, toolCall)
    ELSE IF "index" \in DOMAIN toolCall /\ toolCall.index \in DOMAIN S.indexToId
    THEN TrackFragment(S, S.indexToId[toolCall.index], toolCall)
    ELSE S

\* mutant: a fragment with an id sets the map entry, but only a fragment that
\* brings a name gets a tracked call
ToolCallFragment_MapWithoutCall(S, toolCall) ==
    IF toolCall.id # ""
    THEN LET S1 == IF "index" \in DOMAIN toolCall
                   THEN [S EXCEPT !.indexToId = (toolCall.index :> toolCall.id) @@ @]
                   ELSE S
         IN  IF toolCall.name # "" \/ PosOf(S.toolCalls, toolCall.id) # 0
             THEN TrackFragment(S1, toolCall.id, toolCall)
             ELSE S1
    ELSE IF "index" \in DOMAIN toolCall /\ toolCall.index \in DOMAIN S.indexToId
         /\ PosOf(S.toolCalls, S.indexToId[toolCall.index]) # 0
    THEN TrackFragment(S, S.indexToId[toolCall.index], toolCall)
    ELSE S

\* lines 480-533: one element of delta.tool_calls
ToolCallFragment(S, toolCall) ==
    IF toolCall.id # ""
    THEN TrackFragment(
            IF "index" \in DOMAIN toolCall
            THEN [S EXCEPT !.indexToId = (toolCall.index :> toolCall.id) @@ @]
            ELSE S,
            toolCall.id, toolCall)
    ELSE IF "index" \in DOMAIN toolCall /\ toolCall.index \in DOMAIN S.indexToId
    THEN TrackFragment(S, S.indexToId[toolCall.index], toolCall)
    ELSE S

RECURSIVE ToolCallFragments(_, _)
ToolCallFragments(S, tcs) ==
    IF S.thrown \/ tcs = <<>> THEN S
    ELSE ToolCallFragments(ToolCallFragment(S, Head(tcs)), Tail(tcs))

\* mutant: the delta of a frame is handled before its finish signal
ProcessFrame_DeltaFirst(S, parsed) ==
    LET S1 == UpdateUsage(S, parsed) IN
    IF "choices" \notin DOMAIN parsed \/ parsed.choices = <<>> THEN S1
    ELSE LET choice == parsed.choices[1]
             S2 == IF "delta" \notin DOMAIN choice THEN S1
                   ELSE ToolCallFragments(TextDelta(S1, choice.delta),
                                          choice.delta.tool_calls)
         IN  IF S2.thrown THEN S2 ELSE FinishSignal(S2, choice)

\* mutant: the last choice of the frame is dispatched instead of the first
ProcessFrame_LastChoice(S, parsed) ==
    LET S1 == UpdateUsage(S, parsed) IN
    IF "choices" \notin DOMAIN parsed \/ parsed.choices = <<>> THEN S1
    ELSE LET choice == parsed.choices[Len(parsed.choices)]
             S2 == FinishSignal(S1, choice)
         IN  IF S2.thrown \/ "delta" \notin DOMAIN choice THEN S2
             ELSE ToolCallFragments(TextDelta(S2, choice.delta),
                                    choice.delta.tool_calls)

\* lines 410-534: the body of the try block for one parsed frame
ProcessFrame(S, parsed) ==
    LET S1 == UpdateUsage(S, parsed) IN
    IF "choices" \notin DOMAIN parsed \/ parsed.choices = <<>> THEN S1
    ELSE LET choice == parsed.choices[1]
             S2 == FinishSignal(S1, choice)
         IN  IF S2.thrown \/ "delta" \notin DOMAIN choice THEN S2
             ELSE ToolCallFragments(TextDelta(S2, choice.delta),
                                    choice.delta.tool_calls)

\* mutant: the line 'data: [DONE]' starts the end-of-stream flush and finish
LineResult_DoneFinishes(S, line) ==
    IF line.kind = "done"
    THEN Enqueue(CompleteTextParts(CompleteToolCalls(S)),
                 EvFinish(S.usage, S.actualFinishReason))
    ELSE IF line.kind = "json" THEN ProcessFrame(S, line.frame)
    ELSE S

\* mutant: a payload that fails to parse discards the tool calls tracked so far
LineResult_BadLineDropsCalls(S, line) ==
    IF line.kind = "bad" THEN [S EXCEPT !.toolCalls = <<>>]
    ELSE IF line.kind = "json" THEN ProcessFrame(S, line.frame)
    ELSE S

\* lines 399-539: one line of the chunk
LineResult(S, line) ==
    IF line.kind = "blank" THEN S          \* no 'data: ' prefix: continue
    ELSE IF line.kind = "done" THEN S      \* data === '[DONE]': continue
    ELSE IF line.kind = "bad" THEN S       \* JSON.parse throws: caught, skipped
    ELSE IF line.kind = "head" THEN S      \* cut text: no prefix, or parse throws
    ELSE IF line.kind = "tail" THEN S      \* rest of a line: no 'data: ' prefix
    ELSE ProcessFrame(S, line.frame)

\* mutant: the end of the stream does not complete the outstanding tool calls
DoneResult_NoToolFlush(S) ==
    LET S1 == CompleteTextParts(S) IN
    Enqueue(S1, EvFinish(S1.usage, S1.actualFinishReason))

\* lines 356-391: the flush when the byte source reports done
DoneResult(S) ==
    LET S1 == CompleteTextParts(CompleteToolCalls(S)) IN
    Enqueue(S1, EvFinish(S1.usage, S1.actualFinishReason))

-----------------------------------------------------------------------------
(* Actions *)

\* no request has been made yet
NoCall == [op |-> "none"]

Install(S) ==
    /\ usage' = S.usage
    /\ actualFinishReason' = S.actualFinishReason
    /\ toolCalls' = S.toolCalls
    /\ indexToId' = S.indexToId
    /\ textStarted' = S.textStarted
    /\ textEnded' = S.textEnded
    /\ out' = S.out

Init ==
    /\ usage = InitialUsage
    /\ actualFinishReason = InitialFinishReason
    /\ toolCalls = <<>>
    /\ indexToId = <<>>
    /\ textStarted = {}
    /\ textEnded = {}
    /\ out = <<>>
    /\ state = "readable"
    /\ pending = <<>>
    /\ input = <<>>
    /\ running = TRUE
    /\ readsAfterCancel = 0
    /\ call = NoCall

\* a read that resolves after the consumer cancelled is counted
CountRead ==
    readsAfterCancel' = IF state = "cancelled" THEN readsAfterCancel + 1
                        ELSE readsAfterCancel

\* mutant: the next read is issued while lines of the last chunk are waiting
ReadChunk_PullAhead ==
    /\ running
    /\ Len(input) < MaxLines
    /\ \E chunk \in Chunks(MaxLines - Len(input)) :
          /\ pending' = pending \o chunk
          /\ input' = input \o chunk
    /\ UNCHANGED call
    /\ UNCHANGED <<usage, actualFinishReason, toolCalls, indexToId, textStarted,
                   textEnded, out, state, running, readsAfterCancel>>

\* the last chunk read ended inside a line: the next one begins with its rest
TailOwed == input # <<>> /\ input[Len(input)].kind = "head"

\* reader.read() resolves with a chunk
ReadChunk ==
    /\ running
    /\ pending = <<>>
    /\ ~TailOwed
    /\ Len(input) < MaxLines
    /\ \E chunk \in Chunks(MaxLines - Len(input)) :
          /\ pending' = chunk
          /\ input' = input \o chunk
    /\ CountRead
    /\ UNCHANGED call
    /\ UNCHANGED <<usage, actualFinishReason, toolCalls, indexToId,
                   textStarted, textEnded, out, state, running>>

\* the lines whose bytes may be divided between two chunks
SplitLines == Lines \ {BlankLine}

\* reader.read() resolves with a chunk that ends inside a line
ReadSplit ==
    /\ running
    /\ pending = <<>>
    /\ ~TailOwed
    /\ Len(input) + 2 <= MaxLines
    /\ \E whole \in {<<>>} \cup Chunks(MaxLines - Len(input) - 2),
          line \in SplitLines :
          /\ pending' = whole \o <<HeadOf(line)>>
          /\ input' = input \o whole \o <<HeadOf(line)>>
    /\ CountRead
    /\ UNCHANGED call
    /\ UNCHANGED <<usage, actualFinishReason, toolCalls, indexToId,
                   textStarted, textEnded, out, state, running>>

\* reader.read() resolves with the chunk that begins with the rest of the
\* line the previous chunk ended in
ReadTail ==
    /\ running
    /\ pending = <<>>
    /\ TailOwed
    /\ \E whole \in {<<>>} \cup Chunks(MaxLines - Len(input) - 1) :
          /\ pending' = <<TailOf(input[Len(input)].of)>> \o whole
          /\ input' = input \o <<TailOf(input[Len(input)].of)>> \o whole
    /\ CountRead
    /\ UNCHANGED call
    /\ UNCHANGED <<usage, actualFinishReason, toolCalls, indexToId,
                   textStarted, textEnded, out, state, running>>

\* mutant: a JSON parse error reaches the outer catch and errors the output
ProcessLine_ParseErrorFatal ==
    /\ running
    /\ pending # <<>>
    /\ Install(LineResult(Session, Head(pending)))
    /\ pending' = Tail(pending)
    /\ state' = IF Head(pending).kind = "bad" THEN "errored" ELSE state
    /\ running' = (Head(pending).kind # "bad")
    /\ UNCHANGED call
    /\ UNCHANGED <<input, readsAfterCancel>>

\* the next line of the chunk goes through the filter, the parser, the
\* dispatch; an exception of the dispatch is caught by the inner catch
ProcessLine ==
    /\ running
    /\ pending # <<>>
    /\ Install(LineResult(Session, Head(pending)))
    /\ pending' = Tail(pending)
    /\ UNCHANGED call
    /\ UNCHANGED <<state, input, running, readsAfterCancel>>

\* mutant: the done branch enqueues finish but neither closes nor leaves the loop
ReadDone_NoClose ==
    /\ running
    /\ pending = <<>>
    /\ Install(DoneResult(Session))
    /\ UNCHANGED call
    /\ UNCHANGED <<state, pending, input, running, readsAfterCancel>>

\* mutant: the done branch enqueues finish and leaves the loop without closing
ReadDone_BreakWithoutClose ==
    /\ running
    /\ pending = <<>>
    /\ Install(DoneResult(Session))
    /\ running' = FALSE
    /\ CountRead
    /\ UNCHANGED call
    /\ UNCHANGED <<state, pending, input>>

\* reader.read() resolves with done: flush, finish, close, break; when an
\* enqueue throws, the outer catch calls controller.error, a no-op on an
\* output that is not readable
ReadDone ==
    /\ running
    /\ pending = <<>>
    /\ LET R == DoneResult(Session) IN
          /\ Install(R)
          /\ state' = IF R.thrown THEN state ELSE "closed"
    /\ running' = FALSE
    /\ CountRead
    /\ UNCHANGED call
    /\ UNCHANGED <<pending, input>>

\* mutant: the outer catch completes the open calls and text before it errors
ReadError_Flush ==
    /\ running
    /\ pending = <<>>
    /\ Install(CompleteTextParts(CompleteToolCalls(Session)))
    /\ state' = IF state = "readable" THEN "errored" ELSE state
    /\ running' = FALSE
    /\ CountRead
    /\ UNCHANGED call
    /\ UNCHANGED <<pending, input>>

\* reader.read() rejects: the outer catch puts the output in the error state
ReadError ==
    /\ running
    /\ pending = <<>>
    /\ state' = IF state = "readable" THEN "errored" ELSE state
    /\ running' = FALSE
    /\ CountRead
    /\ UNCHANGED call
    /\ UNCHANGED <<usage, actualFinishReason, toolCalls, indexToId,
                   textStarted, textEnded, out, pending, input>>

\* the consumer cancels the output while the loop awaits a read; the
\* underlying source has no cancel handler
Cancel ==
    /\ state = "readable"
    /\ pending = <<>>
    /\ state' = "cancelled"
    /\ UNCHANGED call
    /\ UNCHANGED <<usage, actualFinishReason, toolCalls, indexToId, textStarted,
                   textEnded, out, pending, input, running, readsAfterCancel>>

Next == ReadChunk \/ ProcessLine \/ ReadDone \/ ReadError

\* a consumer that reads the output to its end
Spec == Init /\ [][Next]_vars

\* a tool-call fragment, a finish signal with a text delta, and a malformed
\* payload
LiveLines ==
    { DataLine(FrameOf(Choice("", Delta("", <<FragC1Start>>)))),
      DataLine(FrameOf(Choice("stop", Delta(" world", <<>>)))),
      BadLine }

\* reader.read() resolves with a chunk of such lines
ReadChunkLive ==
    /\ running
    /\ pending = <<>>
    /\ Len(input) < MaxLines
    /\ \E n \in 1..(MaxLines - Len(input)) :
          \E chunk \in [1..n -> LiveLines] :
              /\ pending' = chunk
              /\ input' = input \o chunk
    /\ CountRead
    /\ UNCHANGED call
    /\ UNCHANGED <<usage, actualFinishReason, toolCalls, indexToId,
                   textStarted, textEnded, out, state, running>>

NextLive == ReadChunkLive \/ ProcessLine \/ ReadDone \/ ReadError

\* the for loop over the lines of a chunk runs on to its end, and the byte
\* source is finite: a read that keeps being awaited ends up reporting done
\* unless it fails
SpecLive ==
    Init /\ [][NextLive]_vars /\ WF_vars(ProcessLine) /\ WF_vars(ReadDone)

NextSplit == Next \/ ReadSplit \/ ReadTail

\* a byte source whose chunk boundaries may fall inside a line
SpecSplit == Init /\ [][NextSplit]_vars

NextCancel == Next \/ Cancel

\* a consumer that may cancel the output
SpecCancel == Init /\ [][NextCancel]_vars

-----------------------------------------------------------------------------
(* Requests: headers, buildRequestBody, doGenerate *)

MaxTools == 2
MaxToolCalls == 2

\* an object without keys
EmptyObject == [k \in {} |-> ""]

\* the members of object obj whose keys are in keys
Pick(obj, keys) == [k \in DOMAIN obj \cap keys |-> obj[k]]

\* a property value is a string, a number or a boolean
StringValue(s) == [t |-> "string", str |-> s]
NumberValue(n) == [t |-> "number", num |-> n]
BooleanValue(b) == [t |-> "boolean", bool |-> b]

Digits == <<"0", "1", "2", "3", "4", "5", "6", "7", "8", "9">>

\* String(n) of a natural number: its decimal digits
RECURSIVE NumberToString(_)
NumberToString(n) ==
    IF n < 10 THEN Digits[n + 1]
    ELSE NumberToString(n \div 10) \o Digits[(n % 10) + 1]

\* String(value)
String(v) ==
    CASE v.t = "string" -> v.str
      [] v.t = "number" -> NumberToString(v.num)
      [] v.t = "boolean" -> IF v.bool THEN "true" ELSE "false"

\* the helicone metadata objects
HeliconeSession ==
    [sessionId |-> "test-session",
     properties |-> [feature |-> StringValue("tool-calling")],
     tags |-> <<"test", "tools">>]
HeliconeFull ==
    [sessionId |-> "tool-session-123", userId |-> "user-456",
     properties |-> [example |-> StringValue("tool-calling"),
                     feature |-> StringValue("function-tools")],
     tags |-> <<"tools", "demo">>, cache |-> TRUE]
HeliconeTyped ==
    [userId |-> "user-456",
     properties |-> [count |-> NumberValue(42), beta |-> BooleanValue(FALSE)],
     cache |-> FALSE]
HeliconeNoTags == [tags |-> <<>>, properties |-> EmptyObject]
Helicones == {HeliconeSession, HeliconeFull, HeliconeTyped, HeliconeNoTags,
              EmptyObject}

\* the extraBody of the model: absent ({}), with helicone metadata, with a
\* field that is passed through to the body, or both
ExtraBodies ==
    {EmptyObject, [user |-> "user-1"]}
    \cup { [helicone |-> h] : h \in Helicones }
    \cup {[helicone |-> HeliconeFull, user |-> "user-1"]}

\* the provider settings
SettingsSet ==
    {[apiKey |-> "test-key"],
     [apiKey |-> "", headers |-> [Accept |-> "text/event-stream"]]}

ModelId == "gpt-4o-mini"

\* tool definitions of the call options
SchemaObject ==
    [type |-> "object", properties |-> [location |-> [type |-> "string"]],
     required |-> <<"location">>]
SchemaString == [type |-> "string"]
ToolWeather ==
    [type |-> "function", name |-> "getWeather", description |-> "Get weather",
     inputSchema |-> SchemaObject]
ToolBare == [type |-> "function", name |-> "calc"]
ToolBadSchema ==
    [type |-> "function", name |-> "bad", description |-> "Bad",
     inputSchema |-> SchemaString]
Tools == {ToolWeather, ToolBare, ToolBadSchema}

ToolChoices ==
    {[type |-> "auto"], [type |-> "required"], [type |-> "none"],
     [type |-> "tool", toolName |-> "getWeather"]}

\* the call options: toolChoice and tools are optional, tools may be empty
OptionsSet ==
    LET toolLists == UNION { [1..n -> Tools] : n \in 0..MaxTools }
        choicePart == {EmptyObject} \cup { [toolChoice |-> c] : c \in ToolChoices }
        toolsPart == {EmptyObject} \cup { [tools |-> l] : l \in toolLists }
    IN  { c @@ t : c \in choicePart, t \in toolsPart }

\* mutant: the cache header is sent only for cache: true
HeliconeHeaders_CacheOnlyWhenTrue(helicone) ==
    LET has(k) == k \in DOMAIN helicone
        session == IF has("sessionId") /\ helicone.sessionId # ""
                   THEN [n \in {"Helicone-Session-Id"} |-> helicone.sessionId]
                   ELSE EmptyObject
        user == IF has("userId") /\ helicone.userId # ""
                THEN [n \in {"Helicone-User-Id"} |-> helicone.userId]
                ELSE EmptyObject
        props == IF has("properties") THEN helicone.properties ELSE EmptyObject
        properties ==
            [n \in { "Helicone-Property-" \o k : k \in DOMAIN props } |->
                String(props[CHOOSE k \in DOMAIN props :
                                 "Helicone-Property-" \o k = n])]
        tagList == IF has("tags") THEN helicone.tags ELSE <<>>
        tags == [n \in { "Helicone-Property-Tag-" \o tagList[i] :
                            i \in 1..Len(tagList) } |-> "true"]
        cache == IF has("cache") /\ helicone.cache
                 THEN [n \in {"Helicone-Cache-Enabled"} |-> "true"]
                 ELSE EmptyObject
    IN  cache @@ tags @@ properties @@ user @@ session

\* lines 52-78: the headers made from the helicone metadata; a later
\* assignment to the same header name replaces the earlier one
HeliconeHeaders(helicone) ==
    LET has(k) == k \in DOMAIN helicone
        session == IF has("sessionId") /\ helicone.sessionId # ""
                   THEN [n \in {"Helicone-Session-Id"} |-> helicone.sessionId]
                   ELSE EmptyObject
        user == IF has("userId") /\ helicone.userId # ""
                THEN [n \in {"Helicone-User-Id"} |-> helicone.userId]
                ELSE EmptyObject
        props == IF has("properties") THEN helicone.properties ELSE EmptyObject
        properties ==
            [n \in { "Helicone-Property-" \o k : k \in DOMAIN props } |->
                String(props[CHOOSE k \in DOMAIN props :
                                 "Helicone-Property-" \o k = n])]
        tagList == IF has("tags") THEN helicone.tags ELSE <<>>
        tags == [n \in { "Helicone-Property-Tag-" \o tagList[i] :
                            i \in 1..Len(tagList) } |-> "true"]
        cache == IF has("cache")
                 THEN [n \in {"Helicone-Cache-Enabled"} |->
                          String(BooleanValue(helicone.cache))]
                 ELSE EmptyObject
    IN  cache @@ tags @@ properties @@ user @@ session

\* lines 41-81: get headers()
headers(settings, extraBody) ==
    LET given == IF "headers" \in DOMAIN settings THEN settings.headers
                 ELSE EmptyObject
        base == given @@ [n \in {"Content-Type"} |-> "application/json"]
        auth == IF settings.apiKey # ""
                THEN [n \in {"Authorization"} |-> "Bearer " \o settings.apiKey]
                ELSE EmptyObject
        metadata == IF "helicone" \in DOMAIN extraBody
                    THEN HeliconeHeaders(extraBody.helicone)
                    ELSE EmptyObject
    IN  metadata @@ auth @@ base

\* mutant: the toolChoice type 'required' is sent as 'auto'
ToolChoiceField_RequiredAsAuto(options) ==
    IF "toolChoice" \notin DOMAIN options THEN EmptyObject
    ELSE LET type == options.toolChoice.type IN
         IF type \in {"auto", "required"}
         THEN [tool_choice |-> [string |-> "auto"]]
         ELSE IF type = "none"
         THEN [tool_choice |-> [string |-> "none"]]
         ELSE IF type = "tool"
         THEN [tool_choice |->
                  [type |-> "function",
                   function |-> [name |-> options.toolChoice.toolName]]]
         ELSE EmptyObject

\* lines 173-186: body.tool_choice
ToolChoiceField(options) ==
    IF "toolChoice" \notin DOMAIN options THEN EmptyObject
    ELSE LET type == options.toolChoice.type IN
         IF type \in {"auto", "required", "none"}
         THEN [tool_choice |-> [string |-> type]]
         ELSE IF type = "tool"
         THEN [tool_choice |->
                  [type |-> "function",
                   function |-> [name |-> options.toolChoice.toolName]]]
         ELSE EmptyObject

\* lines 87-96, 192-200: the parameters of a tool with no schema or with a
\* JSON Schema object, the type defaulted to 'object' and properties to {}
normalizeToolParameters(tool) ==
    LET schema == IF "inputSchema" \in DOMAIN tool THEN tool.inputSchema
                  ELSE [type |-> "object", properties |-> EmptyObject]
        typed == IF "type" \notin DOMAIN schema \/ schema.type = "None"
                 THEN [type |-> "object"] @@ schema ELSE schema
    IN  IF "properties" \notin DOMAIN typed
           /\ "additionalProperties" \notin DOMAIN typed
        THEN typed @@ [properties |-> EmptyObject]
        ELSE typed

\* lines 189-217: one entry of body.tools
ToolEntry(tool) ==
    [type |-> "function",
     function |-> [name |-> tool.name,
                   description |-> IF "description" \in DOMAIN tool
                                   THEN tool.description ELSE "",
                   parameters |-> normalizeToolParameters(tool)]]

\* mutant: an empty tools array is sent as tools: []
ToolsField_SendsEmpty(options) ==
    IF "tools" \in DOMAIN options
    THEN [tools |-> [i \in 1..Len(options.tools) |-> ToolEntry(options.tools[i])]]
    ELSE EmptyObject

\* lines 188-219: body.tools
ToolsField(options) ==
    IF "tools" \in DOMAIN options /\ Len(options.tools) > 0
    THEN [tools |-> [i \in 1..Len(options.tools) |-> ToolEntry(options.tools[i])]]
    ELSE EmptyObject

\* lines 202-207: a tool whose schema type is not 'object' makes the build throw
BuildThrows(options) ==
    /\ "tools" \in DOMAIN options
    /\ \E i \in 1..Len(options.tools) :
          normalizeToolParameters(options.tools[i]).type # "object"

\* lines 138-222: buildRequestBody, for options without sampling parameters
\* and without prompt
buildRequestBody(extraBody, options) ==
    LET otherExtraBody ==
            Pick(extraBody, DOMAIN extraBody
                    \ {"helicone", "prompt_id", "inputs", "environment"})
    IN  ToolsField(options) @@ ToolChoiceField(options) @@ otherExtraBody
            @@ [model |-> ModelId, stream |-> FALSE]

\* the tool calls a response message may carry: arguments that are a JSON
\* object, missing arguments, and arguments that are not JSON
CallWeather ==
    [id |-> "call_1", type |-> "function",
     function |-> [name |-> "getWeather",
                   arguments |-> "{\"location\":\"SF\"}"]]
CallNoArguments ==
    [id |-> "call_2", type |-> "function", function |-> [name |-> "calc"]]
CallBadArguments ==
    [id |-> "call_3", type |-> "function",
     function |-> [name |-> "calc", arguments |-> "{\"a\":"]]
ResponseCalls == {CallWeather, CallNoArguments, CallBadArguments}

\* the messages of a response: content null (absent) or a text, tool_calls
\* absent or a list
Messages ==
    LET callLists == UNION { [1..n -> ResponseCalls] : n \in 0..MaxToolCalls }
        contentPart == {EmptyObject, [content |-> ""], [content |-> "Response"]}
        callsPart == {EmptyObject} \cup { [tool_calls |-> l] : l \in callLists }
    IN  { [role |-> "assistant"] @@ c @@ t : c \in contentPart, t \in callsPart }

\* the responses of the gateway: a failure, or a completion
Responses ==
    {[ok |-> FALSE]}
    \cup { [ok |-> TRUE,
            data |-> [choices |-> <<[message |-> m, finish_reason |-> r]>>,
                      usage |-> FullUsage]] :
              m \in Messages, r \in {"stop", "tool_calls"} }
    \cup { [ok |-> TRUE,
            data |-> [choices |-> <<[message |-> [role |-> "assistant",
                                                  content |-> "Response"],
                                     finish_reason |-> "length"]>>]] }

\* JSON.parse of an arguments text: the value, or a SyntaxError
JSONparse(text) ==
    CASE text = "{}" -> [ok |-> TRUE, value |-> EmptyObject]
      [] text = "{\"location\":\"SF\"}" ->
            [ok |-> TRUE, value |-> [location |-> "SF"]]
      [] OTHER -> [ok |-> FALSE]

\* lines 270-284: the tool-call item of one entry of message.tool_calls
ToolCallItem(toolCall) ==
    LET text == IF "arguments" \in DOMAIN toolCall.function
                   /\ toolCall.function.arguments # ""
                THEN toolCall.function.arguments ELSE "{}"
        parsed == JSONparse(text)
    IN  [type |-> "tool-call",
         toolCallId |-> toolCall.id,
         toolName |-> toolCall.function.name,
         input |-> IF parsed.ok THEN parsed.value ELSE EmptyObject]

\* mutant: the text item comes after the tool-call items
GenerateContent_TextLast(message) ==
    LET text == IF "content" \in DOMAIN message /\ message.content # ""
                THEN <<[type |-> "text", text |-> message.content]>>
                ELSE <<>>
        calls == IF "tool_calls" \in DOMAIN message
                 THEN [i \in 1..Len(message.tool_calls) |->
                          ToolCallItem(message.tool_calls[i])]
                 ELSE <<>>
    IN  calls \o text

\* lines 258-286: the content of the result
GenerateContent(message) ==
    LET text == IF "content" \in DOMAIN message /\ message.content # ""
                THEN <<[type |-> "text", text |-> message.content]>>
                ELSE <<>>
        calls == IF "tool_calls" \in DOMAIN message
                 THEN [i \in 1..Len(message.tool_calls) |->
                          ToolCallItem(message.tool_calls[i])]
                 ELSE <<>>
    IN  text \o calls

\* lines 291-295: the usage of the result
GenerateUsage(data) ==
    LET u == IF "usage" \in DOMAIN data THEN data.usage ELSE EmptyObject
        field(k) == IF k \in DOMAIN u THEN u[k] ELSE 0
    IN  [inputTokens |-> field("prompt_tokens"),
         outputTokens |-> field("completion_tokens"),
         totalTokens |-> IF "total_tokens" \in DOMAIN u THEN u.total_tokens
                         ELSE field("prompt_tokens") + field("completion_tokens")]

\* lines 256-298: the value doGenerate returns for a response that is ok
GenerateResult(data) ==
    LET choice == data.choices[1] IN
    [content |-> GenerateContent(choice.message),
     finishReason |-> mapHeliconeFinishReason(choice.finish_reason),
     usage |-> GenerateUsage(data),
     warnings |-> <<>>]

\* lines 224-310: doGenerate; buildRequestBody throws before anything is
\* sent, and a response that is not ok makes the call throw
doGenerate(settings, extraBody, options, response) ==
    IF BuildThrows(options)
    THEN [op |-> "doGenerate", settings |-> settings, extraBody |-> extraBody,
          options |-> options, sent |-> FALSE, returned |-> FALSE]
    ELSE LET request == [headers |-> headers(settings, extraBody),
                         body |-> buildRequestBody(extraBody, options)]
         IN  IF response.ok
             THEN [op |-> "doGenerate", settings |-> settings,
                   extraBody |-> extraBody, options |-> options, sent |-> TRUE,
                   request |-> request, response |-> response,
                   returned |-> TRUE, result |-> GenerateResult(response.data)]
             ELSE [op |-> "doGenerate", settings |-> settings,
                   extraBody |-> extraBody, options |-> options, sent |-> TRUE,
                   request |-> request, response |-> response,
                   returned |-> FALSE]

\* lines 312-321: the request of doStream
doStream(settings, extraBody, options) ==
    IF BuildThrows(options)
    THEN [op |-> "doStream", settings |-> settings, extraBody |-> extraBody,
          options |-> options, sent |-> FALSE]
    ELSE [op |-> "doStream", settings |-> settings, extraBody |-> extraBody,
          options |-> options, sent |-> TRUE,
          request |-> [headers |-> headers(settings, extraBody),
                       body |-> [stream |-> TRUE]
                                    @@ buildRequestBody(extraBody, options)]]

\* a call of doGenerate, with the response the gateway gives
GenerateCall ==
    /\ call = NoCall
    /\ \E settings \in SettingsSet, extraBody \in ExtraBodies,
          options \in OptionsSet, response \in Responses :
          call' = doGenerate(settings, extraBody, options, response)
    /\ UNCHANGED <<usage, actualFinishReason, toolCalls, indexToId, textStarted,
                   textEnded, out, state, pending, input, running,
                   readsAfterCancel>>

\* a call of doStream, up to the request it sends
StreamCall ==
    /\ call = NoCall
    /\ \E settings \in SettingsSet, extraBody \in ExtraBodies,
          options \in OptionsSet :
          call' = doStream(settings, extraBody, options)
    /\ UNCHANGED <<usage, actualFinishReason, toolCalls, indexToId, textStarted,
                   textEnded, out, state, pending, input, running,
                   readsAfterCancel>>

NextRequest == GenerateCall \/ StreamCall

\* the requests the two entry points send and the value doGenerate returns
SpecRequest == Init /\ [][NextRequest]_vars
-----------------------------------------------------------------------------
(* Reading the output and the input *)

\* positions of the events of one type, and of one type for one tool-call id
EventsOf(type) == { i \in 1..Len(out) : out[i].type = type }
ToolEventsOf(type, id) ==
    { i \in EventsOf(type) :
        IF type = "tool-call" THEN out[i].toolCallId = id ELSE out[i].id = id }

\* the ids that occur in tool events of the output
OutputToolIds ==
    { out[i].id : i \in EventsOf("tool-input-start") \cup EventsOf("tool-input-delta")
                        \cup EventsOf("tool-input-end") }
      \cup { out[i].toolCallId : i \in EventsOf("tool-call") }

IsFrame(line) == line.kind = "json"
HasChoice(line) ==
    IsFrame(line) /\ "choices" \in DOMAIN line.frame /\ line.frame.choices # <<>>
HasFinishSignal(line) == HasChoice(line) /\ line.frame.choices[1].finish_reason # ""
HasUsage(line) == IsFrame(line) /\ "usage" \in DOMAIN line.frame
FragmentsOf(line) ==
    IF HasChoice(line) /\ "delta" \in DOMAIN line.frame.choices[1]
    THEN line.frame.choices[1].delta.tool_calls
    ELSE <<>>

RECURSIVE AllFragments(_)
AllFragments(lines) ==
    IF lines = <<>> THEN <<>>
    ELSE FragmentsOf(Head(lines)) \o AllFragments(Tail(lines))

RECURSIVE ConcatArguments(_)
ConcatArguments(frags) ==
    IF frags = <<>> THEN ""
    ELSE Head(frags).arguments \o ConcatArguments(Tail(frags))

TextLine(c) == DataLine(FrameOf(Choice("", Delta(c, <<>>))))
ToolLine(finish_reason, frag) ==
    DataLine(FrameOf(Choice(finish_reason, Delta("", <<frag>>))))

\* the lines that have gone through the line loop so far
Processed == SubSeq(input, 1, Len(input) - Len(pending))

\* The resolution rule of the tool-call accumulator, replayed over a sequence
\* of fragments from an index -> id map m: a fragment with an id resolves to
\* it and, if it has an index, sets the map entry; a fragment with only a
\* mapped index resolves to the mapped id; any other fragment resolves to
\* nothing ("").
ResolvedId(f, m) ==
    IF f.id # "" THEN f.id
    ELSE IF "index" \in DOMAIN f /\ f.index \in DOMAIN m THEN m[f.index]
    ELSE ""
MapWith(f, m) ==
    IF f.id # "" /\ "index" \in DOMAIN f
    THEN [k \in DOMAIN m \cup {f.index} |-> IF k = f.index THEN f.id ELSE m[k]]
    ELSE m

RECURSIVE AttributionFrom(_, _)
AttributionFrom(frags, m) ==
    IF frags = <<>> THEN <<>>
    ELSE <<ResolvedId(Head(frags), m)>>
            \o AttributionFrom(Tail(frags), MapWith(Head(frags), m))

RECURSIVE MapAfter(_, _)
MapAfter(frags, m) ==
    IF frags = <<>> THEN m
    ELSE MapAfter(Tail(frags), MapWith(Head(frags), m))

\* the id each fragment of the sequence resolves to, "" for a dropped one
Attribution(frags) == AttributionFrom(frags, <<>>)

\* the usage a usage object of a frame stands for
UsageOf(u) ==
    [inputTokens |-> IF "prompt_tokens" \in DOMAIN u THEN u.prompt_tokens ELSE 0,
     outputTokens |-> IF "completion_tokens" \in DOMAIN u THEN u.completion_tokens ELSE 0,
     totalTokens |-> IF "total_tokens" \in DOMAIN u THEN u.total_tokens ELSE 0]

\* position of the last line satisfying P in the input, 0 when there is none
LastLine(P(_)) ==
    IF \E k \in 1..Len(input) : P(input[k])
    THEN CHOOSE k \in 1..Len(input) :
            P(input[k]) /\ \A j \in (k + 1)..Len(input) : ~P(input[j])
    ELSE 0

-----------------------------------------------------------------------------
(* Claims *)

\* C1: for every tool-call id, a tool-input-start for that id is emitted
\* before every tool-input-delta and before the tool-input-end for that id.
C1_StartBeforeDeltaAndEnd ==
    \A i \in EventsOf("tool-input-delta") \cup EventsOf("tool-input-end") :
        \E j \in ToolEventsOf("tool-input-start", out[i].id) : j < i

\* C2: for every tool-call id, every tool-input-delta is emitted before the
\* tool-input-end, and the tool-input-end before the tool-call.
C2_DeltaBeforeEndBeforeCall ==
    \A id \in OutputToolIds :
        /\ \A i \in ToolEventsOf("tool-input-delta", id) :
             \A j \in ToolEventsOf("tool-input-end", id) : i < j
        /\ \A i \in ToolEventsOf("tool-input-end", id) :
             \A j \in ToolEventsOf("tool-call", id) : i < j

\* C3: text-start is emitted before every text-delta, and every text-delta
\* before the text-end of the single text span.
C3_TextStartDeltaEnd ==
    /\ \A i \in EventsOf("text-delta") : \E j \in EventsOf("text-start") : j < i
    /\ \A i \in EventsOf("text-delta") : \A j \in EventsOf("text-end") : i < j

\* C4: when the byte stream is exhausted without a read error the output
\* holds exactly one finish event, it is the last event, and the output is
\* closed with it: a finish event is only ever in a closed output, and a
\* closed output gets no further event.
C4_OneFinishLastThenClosed ==
    /\ [](state = "closed" =>
            /\ Cardinality(EventsOf("finish")) = 1
            /\ out[Len(out)].type = "finish")
    /\ [](EventsOf("finish") # {} => state = "closed")
    /\ [][state = "closed" => out' = out /\ state' = "closed"]_vars

C4_Witness ==
    /\ state = "closed"
    /\ Len(input) >= 2
    /\ EventsOf("tool-call") # {}
    /\ EventsOf("text-end") # {}

\* the two frames of the scenario of C5
ScenarioInput ==
    << ToolLine("", FragC1Start), ToolLine("tool_calls", FragC1Cont) >>

\* C5: the two scenario frames give exactly tool-input-start(c1,f), two
\* tool-input-delta, tool-input-end(c1), tool-call with input '{"a":1}' and
\* finish with finishReason 'tool-calls', in that order.
C5_Scenario ==
    (state = "closed" /\ input = ScenarioInput) =>
        out = << EvToolInputStart("c1", "f"),
                 EvToolInputDelta("c1", "{\"a\":"),
                 EvToolInputDelta("c1", "1}"),
                 EvToolInputEnd("c1"),
                 EvToolCall("c1", "f", "{\"a\":1}"),
                 EvFinish(InitialUsage, "tool-calls") >>

\* the stream carries one tool call: its first fragment has an id and an
\* index, every later fragment has only that index, some fragment has
\* arguments; and no frame carries a finish signal, so that every fragment
\* arrives before the call is flushed
OneCallByIndex ==
    LET frags == AllFragments(input) IN
    /\ frags # <<>>
    /\ frags[1].id # ""
    /\ "index" \in DOMAIN frags[1]
    /\ \A k \in 2..Len(frags) :
          /\ frags[k].id = ""
          /\ "index" \in DOMAIN frags[k]
          /\ frags[k].index = frags[1].index
    /\ ConcatArguments(frags) # ""
    /\ \A k \in 1..Len(input) : ~HasFinishSignal(input[k])

\* C6: for a tool call whose first fragment carries its id and whose later
\* fragments carry only its index, the input of the tool-call event is the
\* concatenation, in arrival order, of all its argument fragments.
C6_InputIsConcatenation ==
    (state = "closed" /\ OneCallByIndex) =>
        LET frags == AllFragments(input) IN
        \A i \in ToolEventsOf("tool-call", frags[1].id) :
            out[i].input = ConcatArguments(frags)

\* C7: when no frame carries a finish signal and no frame carries a usage
\* object, the finish event reports usage 0/0/0 and finishReason 'stop'.
C7_DefaultFinish ==
    ( /\ state = "closed"
      /\ \A k \in 1..Len(input) : ~HasFinishSignal(input[k]) /\ ~HasUsage(input[k]) )
    => out[Len(out)] =
         EvFinish([inputTokens |-> 0, outputTokens |-> 0, totalTokens |-> 0], "stop")

C7_Witness ==
    /\ state = "closed"
    /\ Len(input) = MaxLines
    /\ \A k \in 1..Len(input) :
          IsFrame(input[k]) /\ ~HasFinishSignal(input[k]) /\ ~HasUsage(input[k])
    /\ EventsOf("tool-call") # {}
    /\ EventsOf("text-end") # {}

\* C8: over any sequence of flush triggers each tool-call id gets at most one
\* tool-input-end and at most one tool-call, and the text span at most one
\* text-end.
C8_FlushIdempotent ==
    /\ \A id \in OutputToolIds :
          /\ Cardinality(ToolEventsOf("tool-input-end", id)) <= 1
          /\ Cardinality(ToolEventsOf("tool-call", id)) <= 1
    /\ Cardinality(EventsOf("text-end")) <= 1

\* two finish-signal frames after a tool call and a text, then stream end
C8_Witness ==
    /\ state = "closed"
    /\ Cardinality({ k \in 1..Len(input) : HasFinishSignal(input[k]) }) >= 2
    /\ EventsOf("tool-call") # {}
    /\ EventsOf("text-end") # {}

\* C9: when the finish event is emitted, every tool-call id for which a state
\* was created has exactly one tool-input-end and exactly one tool-call in
\* the output, whether or not a finish signal was received.
C9_AllCallsFlushedAtFinish ==
    EventsOf("finish") # {} =>
        \A p \in 1..Len(toolCalls) :
            /\ Cardinality(ToolEventsOf("tool-input-end", toolCalls[p].id)) = 1
            /\ Cardinality(ToolEventsOf("tool-call", toolCalls[p].id)) = 1

\* two calls, no finish signal: both are flushed by the end of the stream
C9_Witness ==
    /\ EventsOf("finish") # {}
    /\ Len(toolCalls) = 2
    /\ \A k \in 1..Len(input) : ~HasFinishSignal(input[k])

\* the scenario of C10: a malformed line between two text frames
MalformedInput == << TextLine("Hello"), BadLine, TextLine(" world") >>

\* C10: a data line that fails to parse emits no event and raises no error,
\* and two text frames around it give two text-delta events sharing one
\* text-start and one text-end.
C10_MalformedLineSkipped ==
    /\ [][(pending # <<>> /\ Head(pending).kind = "bad")
            => (out' = out /\ state' = state /\ pending' = Tail(pending))]_vars
    /\ []((state = "closed" /\ input = MalformedInput) =>
            out = << EvTextStart("text-0"),
                     EvTextDelta("text-0", "Hello"),
                     EvTextDelta("text-0", " world"),
                     EvTextEnd("text-0"),
                     EvFinish(InitialUsage, "stop") >>)

C10_Witness == state = "closed" /\ input = MalformedInput

\* C11: a tool call that never receives a non-empty arguments fragment still
\* gets one tool-input-end and one tool-call, whose input is '{}'.
C11_NoArgumentsGivesSentinel ==
    state = "closed" =>
        LET frags == AllFragments(input)
            attr == Attribution(frags)
        IN  \A id \in { attr[k] : k \in 1..Len(attr) } \ {""} :
              (\A k \in 1..Len(frags) : attr[k] = id => frags[k].arguments = "")
              => /\ Cardinality(ToolEventsOf("tool-input-end", id)) = 1
                 /\ Cardinality(ToolEventsOf("tool-call", id)) = 1
                 /\ \A i \in ToolEventsOf("tool-call", id) : out[i].input = "{}"

C11_Witness ==
    /\ state = "closed"
    /\ \E i \in 1..Len(out) : out[i] = EvToolCall("c2", "g", "{}")
    /\ \E i \in 1..Len(out) : out[i].type = "tool-input-delta"

\* C12: the usage of the finish event is that of the last frame, in arrival
\* order, that carried a usage object, whether or not the frame has a choice
\* and wherever it stands relative to a finish signal.
C12_UsageLastWriterWins ==
    (state = "closed" /\ LastLine(HasUsage) # 0) =>
        out[Len(out)].usage = UsageOf(input[LastLine(HasUsage)].frame.usage)

\* a usage frame after a frame with a finish signal and another usage
C12_Witness ==
    /\ state = "closed"
    /\ LastLine(HasUsage) # 0
    /\ \E k \in 1..(LastLine(HasUsage) - 1) :
          /\ HasUsage(input[k]) /\ HasFinishSignal(input[k])
          /\ input[k].frame.usage # input[LastLine(HasUsage)].frame.usage

\* C13: after the consumer cancels, the transformer issues no further reads
\* against the byte source: the read that was pending at the cancel may
\* resolve, and no read resolves after it.
C13_NoReadsAfterCancel == readsAfterCancel <= 1

\* C14: when a read on the byte source fails, the output goes to the error
\* state, the failure emits no event (no finish, no tool-input-end, tool-call
\* or text-end), no finish is in the output, and no event follows.
C14_ReadErrorIsFatal ==
    /\ [][(state = "readable" /\ ~running') =>
            \/ state' = "closed"
            \/ state' = "errored" /\ out' = out]_vars
    /\ [](state = "errored" => EventsOf("finish") = {})
    /\ [][state = "errored" => out' = out /\ state' = "errored"]_vars

\* the read fails while a tool call and the text span are open
C14_Witness ==
    /\ state = "errored"
    /\ \E p \in 1..Len(toolCalls) : ~toolCalls[p].completed
    /\ textStarted \ textEnded # {}

\* the fragment resolves to no id in the current session
Unresolvable(f) ==
    /\ f.id = ""
    /\ "index" \notin DOMAIN f \/ f.index \notin DOMAIN indexToId

UnresolvableFragments ==
    { f \in { FragNoIdx("", n, a) : n \in {"", "f"}, a \in {"", "x"} }
              \cup { FragIdx(i, "", n, a) : i \in 0..2, n \in {"", "f"}, a \in {"", "x"} } :
        Unresolvable(f) }

\* the line without the first tool-call fragment of its frame
DropFirstFragment(line) ==
    [line EXCEPT !.frame.choices[1].delta.tool_calls = Tail(@)]

\* C15: a fragment with no id and an absent or unmapped index is dropped: it
\* emits no event, creates no call state, changes no argument buffer and not
\* the index-to-id map; the other fragments of its frame are processed as if
\* it were not there.
C15_UnresolvableFragmentDropped ==
    /\ \A f \in UnresolvableFragments : ToolCallFragment(Session, f) = Session
    /\ ( /\ pending # <<>>
         /\ FragmentsOf(Head(pending)) # <<>>
         /\ Unresolvable(FragmentsOf(Head(pending))[1]) )
       => LineResult(Session, Head(pending))
            = LineResult(Session, DropFirstFragment(Head(pending)))

\* the frame with an orphan fragment followed by a fragment for c2 has been
\* processed after a first call: only the c2 fragment has left a trace
C15_Witness ==
    /\ pending = <<>>
    /\ Len(input) = 2
    /\ input[1] = ToolLine("", FragC2)
    /\ FragmentsOf(input[2]) = <<FragOrphan, FragRemap>>
    /\ out = << EvToolInputStart("c2", "g"), EvToolInputDelta("c2", "x") >>
    /\ DOMAIN indexToId = {0, 1}

RECURSIVE FirstOccurrences(_)
FirstOccurrences(ids) ==
    IF ids = <<>> THEN <<>>
    ELSE LET rest == FirstOccurrences(SubSeq(ids, 1, Len(ids) - 1))
             last == ids[Len(ids)]
         IN  IF last = "" \/ \E k \in 1..Len(rest) : rest[k] = last
             THEN rest ELSE Append(rest, last)

\* C16: a fragment with an id is attributed to that id and, with an index,
\* sets the map entry of the index, overwriting an earlier one; a fragment
\* with only an index is attributed to the id mapped to it and leaves the
\* map alone.  So the map and the tracked calls are those of the replay.
C16_IndexToIdResolution ==
    LET frags == AllFragments(Processed) IN
    /\ indexToId = MapAfter(frags, <<>>)
    /\ [p \in 1..Len(toolCalls) |-> toolCalls[p].id]
          = FirstOccurrences(Attribution(frags))

\* index 0 goes from c1 to c2, and a later index-only fragment lands on c2
C16_Witness ==
    /\ pending = <<>>
    /\ Len(toolCalls) = 2
    /\ toolCalls[1].id = "c1" /\ toolCalls[1].arguments = "{\"a\":"
    /\ toolCalls[2].id = "c2" /\ toolCalls[2].arguments = "x1}"
    /\ indexToId[0] = "c2"

\* the first non-empty name among the fragments attributed to id, "" if none
FirstNameOf(id, frags) ==
    LET attr == Attribution(frags)
        named == { k \in 1..Len(frags) : attr[k] = id /\ frags[k].name # "" }
    IN  IF named = {} THEN ""
        ELSE frags[CHOOSE k \in named : \A j \in named : k <= j].name

\* C17: for every tool-call id at most one tool-input-start is emitted (one
\* exactly when a name was received), it carries the first non-empty name
\* received for the id, and the toolName of a tool-call event is the name the
\* call holds when it is flushed.
C17_FirstNameWins ==
    /\ [](LET frags == AllFragments(Processed)
              attr == Attribution(frags)
          IN  \A id \in ({ attr[k] : k \in 1..Len(attr) } \cup OutputToolIds) \ {""} :
                /\ Cardinality(ToolEventsOf("tool-input-start", id))
                      = IF FirstNameOf(id, frags) = "" THEN 0 ELSE 1
                /\ \A i \in ToolEventsOf("tool-input-start", id) :
                      out[i].toolName = FirstNameOf(id, frags))
    /\ [][\A i \in (Len(out) + 1)..Len(out') :
            out'[i].type = "tool-call" =>
                \E p \in 1..Len(toolCalls) :
                    /\ toolCalls[p].id = out'[i].toolCallId
                    /\ toolCalls[p].name = out'[i].toolName]_vars

\* call c1 is named f, a later fragment brings the name g, the call is flushed
C17_Witness ==
    /\ state = "closed"
    /\ \E k \in 2..Len(input) :
          /\ FragmentsOf(input[k]) = <<FragRename>>
          /\ FragmentsOf(input[k - 1]) = <<FragC1Start>>
    /\ \E i \in 1..Len(out) : out[i] = EvToolCall("c1", "f", "{\"a\":")

RECURSIVE DeltasOf(_)
DeltasOf(events) ==
    IF events = <<>> THEN <<>>
    ELSE (IF Head(events).type = "tool-input-delta"
          THEN << <<Head(events).id, Head(events).delta>> >> ELSE <<>>)
         \o DeltasOf(Tail(events))

RECURSIVE ExpectedDeltas(_, _)
ExpectedDeltas(frags, m) ==
    IF frags = <<>> THEN <<>>
    ELSE (IF ResolvedId(Head(frags), m) # "" /\ Head(frags).arguments # ""
          THEN << <<ResolvedId(Head(frags), m), Head(frags).arguments>> >>
          ELSE <<>>)
         \o ExpectedDeltas(Tail(frags), MapWith(Head(frags), m))

\* C18: every resolved fragment with a non-empty arguments text emits exactly
\* one tool-input-delta with its id and the fragment as received, whatever
\* the buffer holds; fragments with no or empty arguments emit none.
C18_DeltaPerArgumentFragment ==
    DeltasOf(out) = ExpectedDeltas(AllFragments(Processed), <<>>)

\* two deltas for c1, the second on a non-empty buffer, and a resolved
\* fragment without arguments in between
C18_Witness ==
    /\ pending = <<>>
    /\ DeltasOf(out) = << <<"c1", "{\"a\":">>, <<"c1", "1}">> >>
    /\ \E k \in 1..Len(input) : FragmentsOf(input[k]) = <<FragRename>>

C20_FinishReasonLastSignal ==
    state = "closed" =>
        LET k == LastLine(HasFinishSignal)
            reason == input[k].frame.choices[1].finish_reason
        IN  /\ k = 0 => out[Len(out)].finishReason = "stop"
            /\ k # 0 => out[Len(out)].finishReason = mapHeliconeFinishReason(reason)
            /\ (k # 0 /\ reason = "tool_calls")
                  => out[Len(out)].finishReason = "tool-calls"

\* two finish signals with different reasons, the last one 'stop'
C20_Witness ==
    /\ state = "closed"
    /\ LastLine(HasFinishSignal) # 0
    /\ input[LastLine(HasFinishSignal)].frame.choices[1].finish_reason = "stop"
    /\ \E k \in 1..Len(input) :
          HasFinishSignal(input[k])
          /\ input[k].frame.choices[1].finish_reason = "tool_calls"

\* C21: once a tool call is completed its state is never mutated again: the
\* name and the argument buffer of a completed call are still the ones its
\* tool-call event was flushed with, whatever fragments resolved to the id
\* afterwards.
C21_CompletedCallFrozen ==
    \A p \in 1..Len(toolCalls) :
        toolCalls[p].completed =>
            \E i \in ToolEventsOf("tool-call", toolCalls[p].id) :
                /\ out[i].toolName = toolCalls[p].name
                /\ out[i].input = toolCalls[p].arguments

\* the lines of the response body, whole, that a sequence of split results
\* came from: a head stands for its line, the tail that follows adds nothing
RECURSIVE BodyOf(_)
BodyOf(lines) ==
    IF lines = <<>> THEN <<>>
    ELSE (IF Head(lines).kind = "tail" THEN <<>>
          ELSE IF Head(lines).kind = "head" THEN <<Head(lines).of>>
          ELSE <<Head(lines)>>) \o BodyOf(Tail(lines))

\* the session of a call that has read nothing yet
InitialSession ==
    [usage |-> InitialUsage, actualFinishReason |-> InitialFinishReason,
     toolCalls |-> <<>>, indexToId |-> <<>>, textStarted |-> {},
     textEnded |-> {}, out |-> <<>>, writable |-> TRUE, thrown |-> FALSE]

\* the session after the lines have gone through the line loop, each whole
RECURSIVE RunLines(_, _)
RunLines(S, lines) ==
    IF lines = <<>> THEN S
    ELSE RunLines(LineResult(S, Head(lines)), Tail(lines))

\* C22: the events emitted depend only on the bytes of the body and not on
\* the chunk boundaries: once every line received so far has arrived in
\* full, the events emitted are those of the same lines arriving whole.
C22_ChunkingIndependent ==
    (running /\ (Processed = <<>> \/ Processed[Len(Processed)].kind # "head"))
        => out = RunLines(InitialSession, BodyOf(Processed)).out

\* a line the filter drops: blank, without 'data: ' prefix, or 'data: [DONE]'
Filtered(line) == line.kind \in {"blank", "done"}

RECURSIVE Unfiltered(_)
Unfiltered(lines) ==
    IF lines = <<>> THEN <<>>
    ELSE (IF Filtered(Head(lines)) THEN <<>> ELSE <<Head(lines)>>)
         \o Unfiltered(Tail(lines))

\* C23: a blank line, a line without the 'data: ' prefix and 'data: [DONE]'
\* emit no event and change no session state; '[DONE]' triggers neither a
\* flush nor the finish event, and the lines after it are processed as if
\* the dropped lines had not been there.
C23_FilteredLinesInert ==
    /\ [][(pending # <<>> /\ Filtered(Head(pending)) /\ pending' = Tail(pending))
            => UNCHANGED <<usage, actualFinishReason, toolCalls, indexToId,
                           textStarted, textEnded, out, state, running>>]_vars
    /\ [](running =>
            out = RunLines(InitialSession, Unfiltered(Processed)).out)

\* a blank line and '[DONE]' were dropped and the frame after them was processed
C23_Witness ==
    /\ Processed = <<BlankLine, DoneLine, TextLine("Hello")>>
    /\ out = <<EvTextStart(TextId), EvTextDelta(TextId, "Hello")>>
    /\ running

\* the session variables, as one tuple
sessionVars == <<usage, actualFinishReason, toolCalls, indexToId,
                 textStarted, textEnded, out>>

\* C24: a read is issued only when every line of the previous chunk has been
\* processed and its events emitted; the session is changed by one line at a
\* time, the first one waiting, or by the end of the stream; at every moment
\* the session is the result of the processed lines in arrival order.
C24_OneChunkAtATime ==
    /\ [][input' # input =>
            /\ pending = <<>>
            /\ input' = input \o pending'
            /\ sessionVars' = sessionVars]_vars
    /\ [][sessionVars' # sessionVars =>
            \/ pending # <<>> /\ pending' = Tail(pending) /\ input' = input
            \/ pending = <<>> /\ ~running' /\ input' = input]_vars
    /\ [](running =>
            LET R == RunLines(InitialSession, Processed) IN
            /\ out = R.out
            /\ toolCalls = R.toolCalls
            /\ indexToId = R.indexToId
            /\ usage = R.usage
            /\ actualFinishReason = R.actualFinishReason
            /\ textStarted = R.textStarted
            /\ textEnded = R.textEnded)

\* the events of two frames are out while a further line waits its turn
C24_Witness ==
    /\ Processed = <<TextLine("Hello"), ToolLine("", FragC1Start)>>
    /\ pending = <<ToolLine("", FragC1Cont)>>
    /\ out = <<EvTextStart(TextId), EvTextDelta(TextId, "Hello"),
               EvToolInputStart("c1", "f"), EvToolInputDelta("c1", "{\"a\":")>>

\* C25: on a successful response doGenerate returns one text item when the
\* message content is non-empty, then one tool-call item per entry of
\* message.tool_calls in the same order with the entry's id, function name
\* and JSON-parsed arguments (the empty object when the arguments are missing
\* or do not parse), and the mapped finish reason of the first choice.
C25_GenerateContent ==
    (call.op = "doGenerate" /\ call.returned) =>
        LET choice == call.response.data.choices[1]
            message == choice.message
            hasText == "content" \in DOMAIN message /\ message.content # ""
            entries == IF "tool_calls" \in DOMAIN message
                       THEN message.tool_calls ELSE <<>>
            offset == IF hasText THEN 1 ELSE 0
            content == call.result.content
        IN  /\ Len(content) = offset + Len(entries)
            /\ hasText => /\ content[1].type = "text"
                          /\ content[1].text = message.content
            /\ \A i \in 1..Len(entries) :
                  LET item == content[offset + i]
                      f == entries[i].function
                      missing == "arguments" \notin DOMAIN f
                  IN  /\ item.type = "tool-call"
                      /\ item.toolCallId = entries[i].id
                      /\ item.toolName = f.name
                      /\ item.input =
                            IF missing THEN EmptyObject
                            ELSE IF JSONparse(f.arguments).ok
                            THEN JSONparse(f.arguments).value
                            ELSE EmptyObject
            /\ call.result.finishReason
                  = mapHeliconeFinishReason(choice.finish_reason)
            /\ choice.finish_reason = "tool_calls"
                  => call.result.finishReason = "tool-calls"

\* a text and two tool calls, the second with arguments that do not parse
C25_Witness ==
    /\ call.op = "doGenerate"
    /\ call.returned
    /\ call.result.finishReason = "tool-calls"
    /\ call.result.content =
          <<[type |-> "text", text |-> "Response"],
            [type |-> "tool-call", toolCallId |-> "call_1",
             toolName |-> "getWeather", input |-> [location |-> "SF"]],
            [type |-> "tool-call", toolCallId |-> "call_3",
             toolName |-> "calc", input |-> EmptyObject]>>

HeaderIs(h, n, v) == n \in DOMAIN h /\ h[n] = v

NewEvents == SubSeq(out', Len(out) + 1, Len(out'))

FlushTypes == {"tool-input-end", "tool-call", "text-end"}
DeltaTypes == {"text-start", "text-delta", "tool-input-start", "tool-input-delta"}

\* C29: when one frame carries a finish signal and a delta, the events of the
\* flush (tool-input-end, tool-call, text-end) all come before the events of
\* the frame's delta, and the delta's events are still emitted.
C29_FlushBeforeDelta ==
    [][(pending # <<>> /\ pending' = Tail(pending)
            /\ HasFinishSignal(Head(pending))
            /\ "delta" \in DOMAIN Head(pending).frame.choices[1]) =>
        LET new == NewEvents
            delta == Head(pending).frame.choices[1].delta
            open == { p \in 1..Len(toolCalls) : ~toolCalls[p].completed }
        IN  /\ \A i, j \in 1..Len(new) :
                  (new[i].type \in FlushTypes /\ new[j].type \in DeltaTypes)
                      => i < j
            /\ Cardinality({ i \in 1..Len(new) : new[i].type = "tool-call" })
                  = Cardinality(open)
            /\ Cardinality({ i \in 1..Len(new) : new[i].type = "text-end" })
                  = Cardinality(textStarted \ textEnded)
            /\ delta.content # "" =>
                  \E j \in 1..Len(new) : new[j] = EvTextDelta(TextId, delta.content)
            /\ DeltasOf(new) = ExpectedDeltas(delta.tool_calls, indexToId)]_vars

\* the frame that ends call c1 also brings a fragment of its arguments
C29_Witness ==
    out = <<EvToolInputStart("c1", "f"), EvToolInputDelta("c1", "{\"a\":"),
            EvToolInputEnd("c1"), EvToolCall("c1", "f", "{\"a\":"),
            EvToolInputDelta("c1", "1}")>>

\* the ids of the sequence of tracked calls that are not completed
RECURSIVE OpenIds(_)
OpenIds(calls) ==
    IF calls = <<>> THEN <<>>
    ELSE (IF Head(calls).completed THEN <<>> ELSE <<Head(calls).id>>)
         \o OpenIds(Tail(calls))

\* the ids of the tool-input-end events of a sequence of events
RECURSIVE EndedIds(_)
EndedIds(events) ==
    IF events = <<>> THEN <<>>
    ELSE (IF Head(events).type = "tool-input-end" THEN <<Head(events).id>>
          ELSE <<>>) \o EndedIds(Tail(events))

\* the tracked ids in the order of the first fragment attributed to each
CreationOrder == FirstOccurrences(Attribution(AllFragments(Processed)))

\* C30: within each flush the tool calls not yet completed are flushed in the
\* order in which their ids were first created, each tool-input-end is
\* immediately followed by the tool-call of the same id, and all tool flush
\* events come before the text-end of the flush.
C30_FlushOrder ==
    [][LET new == NewEvents
           flush == \E i \in 1..Len(new) : new[i].type \in FlushTypes
       IN  flush =>
            /\ \A i \in 1..Len(new) :
                  new[i].type = "tool-input-end" =>
                      /\ i < Len(new)
                      /\ new[i + 1].type = "tool-call"
                      /\ new[i + 1].toolCallId = new[i].id
            /\ \A i \in 1..Len(new) :
                  new[i].type = "tool-call" =>
                      i > 1 /\ new[i - 1].type = "tool-input-end"
            /\ \A i, j \in 1..Len(new) :
                  (new[i].type \in {"tool-input-end", "tool-call"}
                      /\ new[j].type = "text-end") => i < j
            /\ [k \in 1..Len(toolCalls) |-> toolCalls[k].id] = CreationOrder
            /\ EndedIds(new) = OpenIds(toolCalls)]_vars

\* c2 was created before c1, a text is open: the flush ends c2, c1, the text
C30_Witness ==
    /\ Len(out) >= 6
    /\ SubSeq(out, Len(out) - 5, Len(out)) =
          <<EvToolInputEnd("c2"), EvToolCall("c2", "g", "{}"),
            EvToolInputEnd("c1"), EvToolCall("c1", "", "{}"),
            EvTextEnd(TextId), EvFinish(InitialUsage, "stop")>>

\* the non-empty text contents of the deltas of a sequence of lines, in order
RECURSIVE ContentsOf(_)
ContentsOf(lines) ==
    IF lines = <<>> THEN <<>>
    ELSE LET line == Head(lines) IN
         (IF HasChoice(line) /\ "delta" \in DOMAIN line.frame.choices[1]
             /\ line.frame.choices[1].delta.content # ""
          THEN <<line.frame.choices[1].delta.content>> ELSE <<>>)
         \o ContentsOf(Tail(lines))

\* the texts of the text-delta events of a sequence of events, in order
RECURSIVE TextDeltasOf(_)
TextDeltasOf(events) ==
    IF events = <<>> THEN <<>>
    ELSE (IF Head(events).type = "text-delta" THEN <<Head(events).delta>>
          ELSE <<>>) \o TextDeltasOf(Tail(events))

\* C31: every delta with non-empty content emits exactly one text-delta with
\* that content verbatim and the single span id, in arrival order; one
\* text-start is emitted when there is any such delta and none otherwise; a
\* delta with absent or empty content emits no text event.
C31_TextDeltas ==
    /\ TextDeltasOf(out) = ContentsOf(Processed)
    /\ \A i \in EventsOf("text-delta") \cup EventsOf("text-start") :
          out[i].id = TextId
    /\ Cardinality(EventsOf("text-start"))
          = IF ContentsOf(Processed) = <<>> THEN 0 ELSE 1
    /\ ContentsOf(Processed) = <<>> => EventsOf("text-end") = {}

\* two text deltas, the second in the frame of a finish signal, and a delta
\* with empty content
C31_Witness ==
    /\ Processed = <<TextLine("Hello"), ToolLine("", FragC2),
                     DataLine(FrameOf(Choice("stop", Delta(" world", <<>>))))>>
    /\ TextDeltasOf(out) = <<"Hello", " world">>
    /\ Cardinality(EventsOf("text-start")) = 1

\* C32: the text span is ended only if it was started, and a text-end is
\* emitted only by a flush, that of a finish signal or that of the end of the
\* stream, never by the handling of a delta.
C32_TextEndOnlyByFlush ==
    /\ [](/\ textEnded \subseteq textStarted
          /\ \A e \in EventsOf("text-end") :
                \E s \in EventsOf("text-start") : s < e /\ out[s].id = out[e].id
          /\ Cardinality(EventsOf("text-end")) = Cardinality(textEnded))
    /\ [][(\E i \in 1..Len(NewEvents) : NewEvents[i].type = "text-end") =>
            /\ \/ pending # <<>> /\ HasFinishSignal(Head(pending))
               \/ pending = <<>> /\ ~running'
            /\ textStarted' = textStarted
            /\ TextId \in textStarted /\ TextId \notin textEnded
            /\ \A i, j \in 1..Len(NewEvents) :
                  (NewEvents[i].type = "text-end"
                      /\ NewEvents[j].type \in DeltaTypes) => i < j]_vars

\* the span was ended by a finish signal and a later delta left it ended
C32_Witness ==
    /\ state = "readable"
    /\ textEnded = {TextId}
    /\ Len(out) = 5
    /\ out[3] = EvTextEnd(TextId)
    /\ out[5] = EvTextDelta(TextId, " world")

\* C33: a frame with a usage object sets inputTokens, outputTokens and
\* totalTokens from that object alone: a missing field becomes 0 and does not
\* keep an earlier value, totalTokens is the reported one and is not
\* recomputed; a line without usage object leaves the usage as it is.
C33_UsageWholesale ==
    [][(pending # <<>> /\ pending' = Tail(pending)) =>
        LET line == Head(pending) IN
        IF HasUsage(line)
        THEN LET u == line.frame.usage IN
             /\ usage'.inputTokens
                   = IF "prompt_tokens" \in DOMAIN u THEN u.prompt_tokens ELSE 0
             /\ usage'.outputTokens
                   = IF "completion_tokens" \in DOMAIN u THEN u.completion_tokens
                     ELSE 0
             /\ usage'.totalTokens
                   = IF "total_tokens" \in DOMAIN u THEN u.total_tokens ELSE 0
             /\ u = PartialUsage =>
                   usage' = [inputTokens |-> 0, outputTokens |-> 4,
                             totalTokens |-> 0]
        ELSE usage' = usage]_vars

\* a usage object with only completion_tokens came after a complete one
C33_Witness ==
    /\ usage = [inputTokens |-> 0, outputTokens |-> 4, totalTokens |-> 0]
    /\ Len(Processed) >= 2
    /\ HasUsage(Processed[Len(Processed) - 1])
    /\ Processed[Len(Processed) - 1].frame.usage = FullUsage
    /\ HasUsage(Processed[Len(Processed)])

UsageFrameLine == DataLine(UsageFrame(FullUsage))

\* the line with only the first choice of its frame
FirstChoiceOnly(line) == [line EXCEPT !.frame.choices = <<@[1]>>]

\* C34: a frame without first choice (choices absent or empty) emits no event
\* and leaves the finish reason, the tool-call states, the index-to-id map
\* and the text span unchanged, only usage may change; choices after the
\* first have no effect: the frame acts as if it had its first choice only.
C34_OnlyFirstChoice ==
    [][(pending # <<>> /\ pending' = Tail(pending) /\ IsFrame(Head(pending))) =>
        LET line == Head(pending) IN
        IF ~HasChoice(line)
        THEN /\ out' = out
             /\ UNCHANGED <<actualFinishReason, toolCalls, indexToId,
                            textStarted, textEnded>>
        ELSE LET R == LineResult(Session, FirstChoiceOnly(line)) IN
             /\ out' = R.out
             /\ actualFinishReason' = R.actualFinishReason
             /\ toolCalls' = R.toolCalls
             /\ indexToId' = R.indexToId
             /\ textStarted' = R.textStarted
             /\ textEnded' = R.textEnded
             /\ usage' = R.usage]_vars

\* a frame with empty choices changed the usage only, a frame without
\* choices changed nothing, a frame with two choices acted by its first
C34_Witness ==
    /\ Processed = <<UsageFrameLine, DataLine(NoChoicesFrame),
                     DataLine(TwoChoicesFrame)>>
    /\ usage = UsageOf(FullUsage)
    /\ out = <<EvTextStart(TextId), EvTextDelta(TextId, "Hello")>>
    /\ actualFinishReason = InitialFinishReason
    /\ toolCalls = <<>>

\* C35: the completed flag of a tool call only changes from false to true,
\* tool-call states are never removed, and a call becomes completed in
\* exactly the step that emits its tool-input-end and its tool-call.
C35_CompletedMonotone ==
    [][/\ Len(toolCalls') >= Len(toolCalls)
       /\ \A p \in 1..Len(toolCalls) :
             /\ toolCalls'[p].id = toolCalls[p].id
             /\ toolCalls[p].completed => toolCalls'[p].completed
       /\ \A p \in 1..Len(toolCalls') :
             LET id == toolCalls'[p].id
                 becomes == /\ toolCalls'[p].completed
                            /\ p <= Len(toolCalls) => ~toolCalls[p].completed
                 ended == \E i \in 1..Len(NewEvents) :
                             NewEvents[i] = EvToolInputEnd(id)
                 called == \E i \in 1..Len(NewEvents) :
                              /\ NewEvents[i].type = "tool-call"
                              /\ NewEvents[i].toolCallId = id
             IN  /\ becomes <=> ended
                 /\ becomes <=> called
                 /\ p > Len(toolCalls) => ~toolCalls'[p].completed]_vars

\* call c1 was completed by a finish signal, call c2 was created after it
C35_Witness ==
    /\ Len(toolCalls) = 2
    /\ toolCalls[1].id = "c1" /\ toolCalls[1].completed
    /\ toolCalls[2].id = "c2" /\ ~toolCalls[2].completed
    /\ state = "readable"

\* C36: a finish signal emits no finish event and does not close the output:
\* finish is emitted, and the output closed, only by the read that reports
\* the end of the byte source; the frames that arrive after a finish signal
\* are still dispatched and their events come before finish.
C36_FinishOnlyAtExhaustion ==
    /\ [](running => state = "readable" /\ EventsOf("finish") = {})
    /\ [][((\E i \in 1..Len(NewEvents) : NewEvents[i].type = "finish")
                \/ state' # state)
            => (pending = <<>> /\ input' = input /\ ~running')]_vars
    /\ [](state = "closed" =>
            /\ EventsOf("finish") = {Len(out)}
            /\ TextDeltasOf(out) = ContentsOf(input)
            /\ DeltasOf(out) = ExpectedDeltas(AllFragments(input), <<>>))

\* a text frame and a tool-call frame came after the finish signal
C36_Witness ==
    /\ state = "closed"
    /\ input = <<DataLine(FrameOf(Choice("tool_calls", Delta("", <<>>)))),
                 TextLine("Hello"), ToolLine("", FragC1Start)>>
    /\ out = <<EvTextStart(TextId), EvTextDelta(TextId, "Hello"),
               EvToolInputStart("c1", "f"), EvToolInputDelta("c1", "{\"a\":"),
               EvToolInputEnd("c1"), EvToolCall("c1", "f", "{\"a\":"),
               EvTextEnd(TextId), EvFinish(InitialUsage, "tool-calls")>>

\* C37: for a finite byte stream and a consumer that does not cancel, the
\* loop eventually stops; when it has stopped the output is closed, with
\* finish as its last event, or it is errored; and it is errored only by a
\* read that fails.
C37_Termination ==
    /\ <>(~running)
    /\ [](~running =>
            \/ state = "closed" /\ EventsOf("finish") = {Len(out)}
            \/ state = "errored" /\ EventsOf("finish") = {})
    /\ [][state' = "errored" =>
            (pending = <<>> /\ out' = out /\ input' = input /\ ~running')]_vars

\* the stream ended after three lines and the output is closed
C37_Witness ==
    /\ ~running
    /\ state = "closed"
    /\ Len(input) >= 3
    /\ pending = <<>>
    /\ out[Len(out)].type = "finish"
\* C38: a data line whose payload fails to parse as JSON leaves the whole
\* session state unchanged: usage, finishReason, every tool-call state, the
\* index-to-id map and the text-span flags are the same after the line as
\* before it.
C38_MalformedLeavesState ==
    [][(pending # <<>> /\ Head(pending).kind = "bad" /\ pending' = Tail(pending))
         => UNCHANGED <<usage, actualFinishReason, toolCalls, indexToId,
                        textStarted, textEnded>>]_vars

\* a malformed line has been processed after a text span was opened and a
\* tool call was tracked under an index
C38_Witness ==
    /\ Processed # <<>>
    /\ Processed[Len(Processed)].kind = "bad"
    /\ toolCalls # <<>>
    /\ DOMAIN indexToId # {}
    /\ textStarted # {}
\* C39: every tool-call event carries a non-empty toolName and follows a
\* tool-input-start for the same id, also for a call whose fragments never
\* carry a name.
C39_ToolCallNamedAndStarted ==
    \A i \in EventsOf("tool-call") :
        /\ out[i].toolName # ""
        /\ \E j \in ToolEventsOf("tool-input-start", out[i].toolCallId) : j < i
\* C40: after every processed frame, every id stored as a value of the
\* index-to-id map is a key of the tool-call state map, and every tool-call
\* state stored under key k has id equal to k: the map holds one state per id.
C40_MapsConsistent ==
    /\ \A i \in DOMAIN indexToId : PosOf(toolCalls, indexToId[i]) # 0
    /\ \A p, q \in 1..Len(toolCalls) :
          toolCalls[p].id = toolCalls[q].id => p = q

\* two calls are tracked, one of them under an index, after a fragment that
\* brought an id without a name
C40_Witness ==
    /\ Len(toolCalls) >= 2
    /\ DOMAIN indexToId # {}
    /\ \E k \in 1..Len(Processed) :
          /\ IsFrame(Processed[k])
          /\ \E n \in 1..Len(FragmentsOf(Processed[k])) :
                LET f == FragmentsOf(Processed[k])[n]
                IN  f.id # "" /\ f.name = ""

====
